---- MODULE Spec2Model ----
(***************************************************************************)
(* Model of bank-agent.py: a pydantic-ai agent whose four tools consult    *)
(* the Permit.io decision point (PDP) before they hand data to the model   *)
(* that composes the answer.                                               *)
(*                                                                         *)
(* Texts are sequences of fragments.  A fragment is either one character   *)
(* or a literal piece of text that holds no decimal digit and is never     *)
(* searched; topics, document types and everything produced by number      *)
(* formatting are written character by character.                          *)
(*                                                                         *)
(* The language model behind bank_agent (which tools it calls, with what   *)
(* arguments, in what order, and what BankResponse it finally emits) and   *)
(* the PDP (what it answers, whether it is reachable) are outside the      *)
(* program: every choice they make is a nondeterministic choice here.      *)
(***************************************************************************)
EXTENDS Naturals, Sequences, FiniteSets

VARIABLES req, slots, callsPerRun, bank_docs, bank_accounts

vars == <<req, slots, callsPerRun, bank_docs, bank_accounts>>

\* ------------------------------------------------------------------ bounds

\* Tool calls the agent may issue in one run of handle_user_query.
MaxCalls == 2
\* Tool calls per run when two runs of handle_user_query are in flight.
PairCalls == 1

\* Identifiers of the runs of handle_user_query the model follows.
Reqs == {"r1", "r2"}

\* user_id values handed to handle_user_query: one with a recorded account,
\* one without.
Users == {"test@example.com", "new@example.com"}

\* query values handed to handle_user_query; no line of the program reads
\* the query, it only travels to the language model.
Queries == {"How can i block my card?"}

\* topic arguments the agent passes to check_bank_documentation.
Topics ==
  { <<"i","n","f","o">>, <<"L","o","a","n">>, <<"c","a","r","d">> }

\* response_text arguments the agent passes to verify_response.
Drafts ==
  { <<"Please verify your identity.">>,
    <<"Your current balance is $", "1","2","5","0",".","3","0">>,
    <<"Your PIN ends in ", "U+0663">> }

\* Error kinds the Permit client raises when the PDP cannot answer.
PdpErrors == {"PermitConnectionError", "PermitApiError"}

\* ------------------------------------------------------------------- texts

Digits == <<"0","1","2","3","4","5","6","7","8","9">>

UpperCase ==
  <<"A","B","C","D","E","F","G","H","I","J","K","L","M",
    "N","O","P","Q","R","S","T","U","V","W","X","Y","Z">>

LowerCase ==
  <<"a","b","c","d","e","f","g","h","i","j","k","l","m",
    "n","o","p","q","r","s","t","u","v","w","x","y","z">>

\* str.lower() on one character.
LowerChar(c) ==
  IF \E i \in 1..Len(UpperCase) : UpperCase[i] = c
  THEN LowerCase[CHOOSE i \in 1..Len(UpperCase) : UpperCase[i] = c]
  ELSE c

\* str.lower()
Lower(s) == [i \in 1..Len(s) |-> LowerChar(s[i])]

\* a in b, for strings
IsSubstring(a, b) ==
  \E i \in 0..Len(b) :
    /\ i + Len(a) <= Len(b)
    /\ SubSeq(b, i + 1, i + Len(a)) = a

\* Decimal digits (Unicode category Nd) outside ASCII, one fragment each:
\* ARABIC-INDIC DIGIT THREE and FULLWIDTH DIGIT SEVEN.
OtherDecimalDigits == {"U+0663", "U+FF17"}

\* Variant: only the ASCII digits count.
ContainsNumbers_AsciiOnly(text) ==
  \E i \in 1..Len(text) : \E d \in 1..Len(Digits) : text[i] = Digits[d]

\* bool(re.search(r"\d", response_text)); in a str pattern \d matches every
\* Unicode decimal digit, the ASCII ones among them.
ContainsNumbers(text) ==
  \E i \in 1..Len(text) :
    \/ \E d \in 1..Len(Digits) : text[i] = Digits[d]
    \/ text[i] \in OtherDecimalDigits

RECURSIVE DecimalDigits(_)
\* The decimal digits of a natural number, most significant first.
DecimalDigits(n) ==
  IF n < 10 THEN <<Digits[n + 1]>>
  ELSE DecimalDigits(n \div 10) \o <<Digits[(n % 10) + 1]>>

\* f"{balance:.2f}" of an amount held in cents.
Format2f(cents) ==
  DecimalDigits(cents \div 100)
    \o <<".">>
    \o <<Digits[((cents % 100) \div 10) + 1], Digits[(cents % 10) + 1]>>

\* --------------------------------------------------------------- catalogue

MOCK_BANK_DOCS ==
  << [ id |-> "doc_001",
       content |-> <<"Bank accounts can be checking or savings. Minimum balance requirements apply.">>,
       type |-> <<"a","c","c","o","u","n","t","_","i","n","f","o">>,
       security_requirement |-> "standard" ],
     [ id |-> "doc_002",
       content |-> <<"We offer personal, business, and mortgage loans with competitive rates.">>,
       type |-> <<"l","o","a","n","_","i","n","f","o">>,
       security_requirement |-> "standard" ],
     [ id |-> "doc_003",
       content |-> <<"Investment options include stocks, bonds, and mutual funds.">>,
       type |-> <<"i","n","v","e","s","t","m","e","n","t","_","i","n","f","o">>,
       security_requirement |-> "high" ],
     [ id |-> "doc_004",
       content |-> <<"We use state-of-the-art encryption and multi-factor authentication.">>,
       type |-> <<"s","e","c","u","r","i","t","y","_","i","n","f","o">>,
       security_requirement |-> "high" ] >>

DocIds == { MOCK_BANK_DOCS[i].id : i \in 1..Len(MOCK_BANK_DOCS) }

\* Ids the PDP's filter_objects may name in its answer: the catalogue's and
\* one the catalogue does not hold.
PdpIds == DocIds \cup {"doc_00"}

\* Balances in cents: 5000.75 and 1250.30.
MOCK_BANK_ACCOUNTS ==
  [ u \in {"samarachi470@gmail.com", "test@example.com"} |->
      IF u = "samarachi470@gmail.com" THEN 500075 ELSE 125030 ]

\* Variant: the lookup ignores the subject and takes the first account.
AccountsGet_FirstAccount(user_id) == bank_accounts["samarachi470@gmail.com"]

\* MOCK_BANK_ACCOUNTS.get(user_id, 0.0); bank_accounts is the dict as it is
\* when the tool runs.
AccountsGet(user_id) ==
  IF user_id \in DOMAIN bank_accounts THEN bank_accounts[user_id] ELSE 0

\* Variant: the lookup records the default (dict.setdefault).
AccountsAfterGet_SetDefault(accounts, user_id) ==
  [ u \in DOMAIN accounts \cup {user_id} |->
      IF u \in DOMAIN accounts THEN accounts[u] ELSE 0 ]

\* The dict after .get(user_id, 0.0): a lookup writes nothing.
AccountsAfterGet(accounts, user_id) == accounts

\* ----------------------------------------------------------- tool results

IDENTITY_NOT_VERIFIED ==
  <<"IDENTITY_NOT_VERIFIED: Please verify your identity at example.com/verify">>

IDENTITY_VERIFIED ==
  <<"IDENTITY_VERIFIED: User is permitted to make queries">>

NO_DOCUMENTATION ==
  <<"No documentation found for this topic or you don't have permission to access it.">>

ACCESS_DENIED ==
  <<"ACCESS_DENIED: You do not have permission to view account balance.">>

CAUTION_NOTE ==
  <<"CAUTION: This response contains sensitive financial information. Please ensure you're in a private location.">>

\* f"Your current balance is ${balance:.2f}"
BalanceText(cents) == <<"Your current balance is $">> \o Format2f(cents)

\* Variant: the note is attached whenever the PDP approves it.
VerifyResult_NoteOnApproval(contains_numbers, needs_caution) ==
  [ approved |-> TRUE,
    contains_sensitive_data |-> contains_numbers,
    caution_note |-> IF needs_caution THEN CAUTION_NOTE ELSE <<>> ]

\* The dict verify_response returns.
VerifyResult(contains_numbers, needs_caution) ==
  [ approved |-> TRUE,
    contains_sensitive_data |-> contains_numbers,
    caution_note |->
      IF needs_caution /\ contains_numbers THEN CAUTION_NOTE ELSE <<>> ]

NoDict == [ approved |-> FALSE, contains_sensitive_data |-> FALSE, caution_note |-> <<>> ]

\* A tool's return value: a str, or (verify_response) a dict.
StrOut(text) == [ kind |-> "str", text |-> text, dict |-> NoDict ]
DictOut(d) == [ kind |-> "dict", text |-> <<>>, dict |-> d ]
NoOut == [ kind |-> "none", text |-> <<>>, dict |-> NoDict ]

\* ------------------------------------------------------- decision point

\* Attributes are sets of <<name, value>>, each value a text.
NoResource == [ type |-> "", attributes |-> {} ]

ACCOUNT_INFO == <<"a","c","c","o","u","n","t","_","i","n","f","o">>

\* permit.check(user, action, resource)
CheckCall(user, action, resource) ==
  [ op |-> "check", user |-> user, action |-> action,
    resource |-> resource, resources |-> <<>> ]

\* permit.filter_objects(user, action, context, resources); the context is {}.
FilterCall(user, action, resources) ==
  [ op |-> "filter_objects", user |-> user, action |-> action,
    resource |-> NoResource, resources |-> resources ]

NoCall == CheckCall([key |-> "", attributes |-> {}], "", NoResource)

\* What the PDP may answer to check: a decision, or the client raises.
CheckAnswers ==
  [ ok : {TRUE}, decision : BOOLEAN, allowed_docs : {<<>>}, error : {""} ]
    \cup [ ok : {FALSE}, decision : {FALSE}, allowed_docs : {<<>>}, error : PdpErrors ]

RECURSIVE IdsIn(_, _)
\* The ids of set S in the order of the sequence ids.
IdsIn(ids, S) ==
  IF ids = <<>> THEN <<>>
  ELSE (IF Head(ids) \in S THEN <<Head(ids)>> ELSE <<>>) \o IdsIn(Tail(ids), S)

Reverse(s) == [i \in 1..Len(s) |-> s[Len(s) + 1 - i]]

PdpIdOrder ==
  [i \in 1..Len(MOCK_BANK_DOCS) |-> MOCK_BANK_DOCS[i].id] \o <<"doc_00">>

\* What the PDP may answer to filter_objects: the ids of the objects it
\* allows, any subset of PdpIds in the order sent or in the opposite order,
\* or the client raises.
FilterAnswers ==
  [ ok : {TRUE}, decision : {FALSE},
    allowed_docs : { IdsIn(PdpIdOrder, S) : S \in SUBSET PdpIds }
                     \cup { Reverse(IdsIn(PdpIdOrder, S)) : S \in SUBSET PdpIds },
    error : {""} ]
    \cup [ ok : {FALSE}, decision : {FALSE}, allowed_docs : {<<>>}, error : PdpErrors ]

NoAnswer == [ ok |-> FALSE, decision |-> FALSE, allowed_docs |-> <<>>, error |-> "" ]

\* ------------------------------------------------------------ tool bodies
\* What a tool does once its awaited PDP call has ended with answer ans:
\* the exception it raises ("" when it returns), the value it returns, the
\* store entries it has read, and (check_bank_documentation) its locals.

Returns(out, read) ==
  [ raises |-> "", out |-> out, read |-> read,
    allowed_ids |-> {}, filtered_docs |-> <<>> ]

Raises(kind) ==
  [ raises |-> kind, out |-> NoOut, read |-> {},
    allowed_ids |-> {}, filtered_docs |-> <<>> ]

PlainUser(user_id) == [ key |-> user_id, attributes |-> {} ]

verify_user_prompt_call(user_id) ==
  CheckCall([ key |-> user_id,
              attributes |-> { <<"identity_verified", <<"True">>>> } ],
            "recieve",
            [ type |-> "support_response", attributes |-> {} ])

\* Variant: the identity check wraps the client's error in SecurityError.
verify_user_prompt_Wrapping(user_id, ans) ==
  IF ~ans.ok THEN Raises("SecurityError")
  ELSE IF ~ans.decision THEN Returns(StrOut(IDENTITY_NOT_VERIFIED), {})
  ELSE Returns(StrOut(IDENTITY_VERIFIED), {})

verify_user_prompt(user_id, ans) ==
  IF ~ans.ok THEN Raises(ans.error)
  ELSE IF ~ans.decision THEN Returns(StrOut(IDENTITY_NOT_VERIFIED), {})
  ELSE Returns(StrOut(IDENTITY_VERIFIED), {})

\* The resources list built from MOCK_BANK_DOCS.
DocResources ==
  [ i \in 1..Len(bank_docs) |->
      [ id |-> bank_docs[i].id,
        type |-> "banking_data",
        attributes |->
          { <<"data_type", bank_docs[i].type>>,
            <<"security_requirement", <<bank_docs[i].security_requirement>>>> } ] ]

check_bank_documentation_call(user_id) ==
  FilterCall(PlainUser(user_id), "read", DocResources)

\* Variant: the topic alone selects a document.
DocSelected_TopicOnly(doc, allowed_ids, topic) ==
  IsSubstring(Lower(topic), Lower(doc.type))

\* Variant: the topic is matched as written, case included.
DocSelected_CaseSensitive(doc, allowed_ids, topic) ==
  /\ doc.id \in allowed_ids
  /\ IsSubstring(topic, doc.type)

\* Variant: the allowed ids alone select a document.
DocSelected_AllowedOnly(doc, allowed_ids, topic) ==
  doc.id \in allowed_ids

\* doc["id"] in allowed_ids and topic.lower() in doc["type"].lower()
DocSelected(doc, allowed_ids, topic) ==
  /\ doc.id \in allowed_ids
  /\ IsSubstring(Lower(topic), Lower(doc.type))

\* Variant: the selected documents come out in the opposite order.
FilteredDocs_Reversed(allowed_ids, topic) ==
  LET keep(doc) == DocSelected(doc, allowed_ids, topic)
  IN  Reverse(SelectSeq(bank_docs, keep))

FilteredDocs(allowed_ids, topic) ==
  LET keep(doc) == DocSelected(doc, allowed_ids, topic)
  IN  SelectSeq(bank_docs, keep)

\* Variant: a failed filter_objects call is answered with the
\* no-documentation string.
check_bank_documentation_Swallowing(user_id, topic, ans) ==
  IF ~ans.ok THEN Returns(StrOut(NO_DOCUMENTATION), {})
  ELSE
    LET allowed_ids == { ans.allowed_docs[i] : i \in 1..Len(ans.allowed_docs) }
        filtered_docs == FilteredDocs(allowed_ids, topic)
    IN  [ raises |-> "",
          out |-> IF filtered_docs = <<>>
                  THEN StrOut(NO_DOCUMENTATION)
                  ELSE StrOut(filtered_docs[1].content),
          read |-> IF filtered_docs = <<>> THEN {}
                   ELSE { <<"MOCK_BANK_DOCS", filtered_docs[1].id>> },
          allowed_ids |-> allowed_ids,
          filtered_docs |-> filtered_docs ]

check_bank_documentation(user_id, topic, ans) ==
  IF ~ans.ok THEN Raises("SecurityError")
  ELSE
    LET allowed_ids == { ans.allowed_docs[i] : i \in 1..Len(ans.allowed_docs) }
        filtered_docs == FilteredDocs(allowed_ids, topic)
    IN  [ raises |-> "",
          out |-> IF filtered_docs = <<>>
                  THEN StrOut(NO_DOCUMENTATION)
                  ELSE StrOut(filtered_docs[1].content),
          read |-> IF filtered_docs = <<>> THEN {}
                   ELSE { <<"MOCK_BANK_DOCS", filtered_docs[1].id>> },
          allowed_ids |-> allowed_ids,
          filtered_docs |-> filtered_docs ]

check_account_balance_call(user_id) ==
  CheckCall(PlainUser(user_id), "read",
            [ type |-> "banking_data",
              attributes |-> { <<"data_type", ACCOUNT_INFO>>,
                               <<"security_requirement", <<"standard">>>> } ])

\* Variant: the balance is fetched first and the decision looked at after.
check_account_balance_FetchFirst(user_id, ans) ==
  IF ~ans.ok THEN Raises(ans.error)
  ELSE IF ~ans.decision
       THEN Returns(StrOut(ACCESS_DENIED), { <<"MOCK_BANK_ACCOUNTS", user_id>> })
  ELSE Returns(StrOut(BalanceText(AccountsGet(user_id))),
               { <<"MOCK_BANK_ACCOUNTS", user_id>> })

\* Variant: a failed check is taken for a denial.
check_account_balance_DenyOnError(user_id, ans) ==
  IF ~ans.ok \/ ~ans.decision THEN Returns(StrOut(ACCESS_DENIED), {})
  ELSE Returns(StrOut(BalanceText(AccountsGet(user_id))),
               { <<"MOCK_BANK_ACCOUNTS", user_id>> })

\* Variant: a denial is raised instead of returned.
check_account_balance_RaisingDenial(user_id, ans) ==
  IF ~ans.ok THEN Raises(ans.error)
  ELSE IF ~ans.decision THEN Raises("PermissionError")
  ELSE Returns(StrOut(BalanceText(AccountsGet(user_id))),
               { <<"MOCK_BANK_ACCOUNTS", user_id>> })

\* Variant: a subject with no recorded account gets an error string.
check_account_balance_MissingIsError(user_id, ans) ==
  IF ~ans.ok THEN Raises(ans.error)
  ELSE IF ~ans.decision THEN Returns(StrOut(ACCESS_DENIED), {})
  ELSE IF user_id \notin DOMAIN bank_accounts
       THEN Returns(StrOut(<<"Error accessing account: ", "'", user_id, "'">>),
                    { <<"MOCK_BANK_ACCOUNTS", user_id>> })
  ELSE Returns(StrOut(BalanceText(AccountsGet(user_id))),
               { <<"MOCK_BANK_ACCOUNTS", user_id>> })

check_account_balance(user_id, ans) ==
  IF ~ans.ok THEN Raises(ans.error)
  ELSE IF ~ans.decision THEN Returns(StrOut(ACCESS_DENIED), {})
  ELSE Returns(StrOut(BalanceText(AccountsGet(user_id))),
               { <<"MOCK_BANK_ACCOUNTS", user_id>> })

PyBool(b) == IF b THEN <<"True">> ELSE <<"False">>

\* Variant: the request always says contains_account_numbers: True.
verify_response_call_AlwaysTrue(user_id, response_text) ==
  CheckCall(PlainUser(user_id), "receive_with_caution",
            [ type |-> "support_response",
              attributes |-> { <<"contains_account_numbers", <<"True">>>> } ])

verify_response_call(user_id, response_text) ==
  CheckCall(PlainUser(user_id), "receive_with_caution",
            [ type |-> "support_response",
              attributes |->
                { <<"contains_account_numbers",
                    PyBool(ContainsNumbers(response_text))>> } ])

verify_response(user_id, response_text, ans) ==
  IF ~ans.ok THEN Raises(ans.error)
  ELSE Returns(DictOut(VerifyResult(ContainsNumbers(response_text), ans.decision)), {})

\* ------------------------------------------------------------------ state
\* req[r] is one run of handle_user_query:
\*   pc       "idle" (not started), "agent" (bank_agent.run is between tool
\*            calls), "tool" (a tool is awaiting the PDP), "done" (result.data
\*            returned), "raised" (an exception left handle_user_query)
\*   user_id, query   the arguments; deps.user_id is user_id
\*   left     tool calls the agent may still issue
\*   frame    the tool invocation in progress or just ended
\*   log      the tool invocations that returned, in order
\*   env      the BankResponse returned
\*   error    the exception that left handle_user_query

NoFrame ==
  [ tool |-> "", arg |-> <<>>, call |-> NoCall, phase |-> "",
    answer |-> NoAnswer, read |-> {}, allowed_ids |-> {},
    filtered_docs |-> <<>>, out |-> NoOut ]

NoEnv ==
  [ returned |-> FALSE, message |-> {},
    sensitive_data_included |-> FALSE, caution_note |-> <<>> ]

\* BankResponse(message, sensitive_data_included, caution_note); the message
\* is held as the set of tool results it quotes.
BankResponse(message, sensitive_data_included, caution_note) ==
  [ returned |-> TRUE, message |-> message,
    sensitive_data_included |-> sensitive_data_included,
    caution_note |-> caution_note ]

IdleReq ==
  [ pc |-> "idle", user_id |-> "", query |-> "", left |-> 0,
    frame |-> NoFrame, log |-> <<>>, env |-> NoEnv, error |-> "" ]

Init ==
  /\ req = [r \in Reqs |-> IdleReq]
  /\ slots = {"r1"}
  /\ callsPerRun = MaxCalls
  /\ bank_docs = MOCK_BANK_DOCS
  /\ bank_accounts = MOCK_BANK_ACCOUNTS

InitPair ==
  /\ req = [r \in Reqs |-> IdleReq]
  /\ slots = Reqs
  /\ callsPerRun = PairCalls
  /\ bank_docs = MOCK_BANK_DOCS
  /\ bank_accounts = MOCK_BANK_ACCOUNTS

\* handle_user_query(user_id, query): builds the dependencies and enters
\* bank_agent.run.
HandleUserQuery(r) ==
  /\ r \in slots
  /\ req[r].pc = "idle"
  /\ \E user_id \in Users, query \in Queries :
       req' = [req EXCEPT ![r] =
                 [IdleReq EXCEPT !.pc = "agent", !.user_id = user_id,
                                 !.query = query, !.left = callsPerRun]]
  /\ slots' = slots \ {r}
  /\ UNCHANGED <<callsPerRun, bank_docs, bank_accounts>>

\* The agent calls a tool: the tool runs up to its awaited PDP call.
Invoke(r, tool, arg, call) ==
  /\ req[r].pc = "agent"
  /\ req[r].left > 0
  /\ req' = [req EXCEPT ![r].pc = "tool",
                        ![r].left = @ - 1,
                        ![r].frame =
                          [NoFrame EXCEPT !.tool = tool, !.arg = arg,
                                          !.call = call, !.phase = "await"]]
  /\ UNCHANGED <<slots, callsPerRun, bank_docs, bank_accounts>>

\* The awaited PDP call ends and the tool runs to its end: it returns to
\* the agent, or its exception leaves bank_agent.run and handle_user_query.
Resume(r, ans, o) ==
  /\ req' = [req EXCEPT
       ![r].frame = [@ EXCEPT !.phase = IF o.raises = "" THEN "returned" ELSE "raised",
                              !.answer = ans, !.read = o.read,
                              !.allowed_ids = o.allowed_ids,
                              !.filtered_docs = o.filtered_docs,
                              !.out = o.out],
       ![r].pc = IF o.raises = "" THEN "agent" ELSE "raised",
       ![r].error = o.raises,
       ![r].log = IF o.raises = "" THEN
                    Append(@, [ tool |-> req[r].frame.tool,
                                granted |-> IF req[r].frame.tool = "check_bank_documentation"
                                            THEN o.filtered_docs # <<>>
                                            ELSE ans.decision,
                                out |-> o.out ])
                  ELSE @]
  /\ bank_accounts' =
       IF req[r].frame.tool = "check_account_balance" /\ o.read # {}
       THEN AccountsAfterGet(bank_accounts, req[r].user_id)
       ELSE bank_accounts
  /\ UNCHANGED <<slots, callsPerRun, bank_docs>>

Awaiting(r, tool) ==
  /\ req[r].pc = "tool"
  /\ req[r].frame.tool = tool
  /\ req[r].frame.phase = "await"

VerifyUserPromptCall(r) ==
  Invoke(r, "verify_user_prompt", <<req[r].query>>,
         verify_user_prompt_call(req[r].user_id))

VerifyUserPromptReturn(r) ==
  /\ Awaiting(r, "verify_user_prompt")
  /\ \E ans \in CheckAnswers :
       Resume(r, ans, verify_user_prompt(req[r].user_id, ans))

CheckBankDocumentationCall(r) ==
  \E topic \in Topics :
    Invoke(r, "check_bank_documentation", topic,
           check_bank_documentation_call(req[r].user_id))

CheckBankDocumentationReturn(r) ==
  /\ Awaiting(r, "check_bank_documentation")
  /\ \E ans \in FilterAnswers :
       Resume(r, ans, check_bank_documentation(req[r].user_id, req[r].frame.arg, ans))

CheckAccountBalanceCall(r) ==
  Invoke(r, "check_account_balance", <<>>,
         check_account_balance_call(req[r].user_id))

\* Variant: once a balance read of the run was granted, later balance
\* reads of the run are served whatever the PDP answers now.
CheckAccountBalanceReturn_Cached(r) ==
  /\ Awaiting(r, "check_account_balance")
  /\ \E ans \in CheckAnswers :
       Resume(r, ans,
              IF \E i \in 1..Len(req[r].log) :
                   /\ req[r].log[i].tool = "check_account_balance"
                   /\ req[r].log[i].granted
              THEN check_account_balance(req[r].user_id,
                     [ ok |-> TRUE, decision |-> TRUE,
                       allowed_docs |-> <<>>, error |-> "" ])
              ELSE check_account_balance(req[r].user_id, ans))

CheckAccountBalanceReturn(r) ==
  /\ Awaiting(r, "check_account_balance")
  /\ \E ans \in CheckAnswers :
       Resume(r, ans, check_account_balance(req[r].user_id, ans))

VerifyResponseCall(r) ==
  \E response_text \in Drafts :
    Invoke(r, "verify_response", response_text,
           verify_response_call(req[r].user_id, response_text))

VerifyResponseReturn(r) ==
  /\ Awaiting(r, "verify_response")
  /\ \E ans \in CheckAnswers :
       Resume(r, ans, verify_response(req[r].user_id, req[r].frame.arg, ans))

\* The data-bearing tool results the agent has been handed in this run.
DataSeen(log) ==
  { log[i].out.text :
      i \in { j \in 1..Len(log) :
                /\ log[j].tool \in {"check_bank_documentation", "check_account_balance"}
                /\ log[j].granted } }

\* The agent ends the run with a BankResponse of its own making;
\* handle_user_query prints and returns it.
AgentResult(r) ==
  /\ req[r].pc = "agent"
  /\ \E message \in SUBSET DataSeen(req[r].log),
        sensitive_data_included \in BOOLEAN,
        caution_note \in {<<>>, CAUTION_NOTE} :
       req' = [req EXCEPT
                 ![r].pc = "done",
                 ![r].frame = NoFrame,
                 ![r].env = BankResponse(message, sensitive_data_included, caution_note)]
  /\ UNCHANGED <<slots, callsPerRun, bank_docs, bank_accounts>>

Next ==
  \E r \in Reqs :
    \/ HandleUserQuery(r)
    \/ VerifyUserPromptCall(r)
    \/ VerifyUserPromptReturn(r)
    \/ CheckBankDocumentationCall(r)
    \/ CheckBankDocumentationReturn(r)
    \/ CheckAccountBalanceCall(r)
    \/ CheckAccountBalanceReturn(r)
    \/ VerifyResponseCall(r)
    \/ VerifyResponseReturn(r)
    \/ AgentResult(r)

Spec == Init /\ [][Next]_vars

SpecPair == InitPair /\ [][Next]_vars

\* ================================================================ claims

DataTools == {"check_bank_documentation", "check_account_balance"}

Frame(r) == req[r].frame

\* The tool invocation of run r has run to its end (returned or raised).
Ended(r) == Frame(r).phase \in {"returned", "raised"}

\* Some identity check of run r has returned on a false decision.
IdentityDenied(r) ==
  \E i \in 1..Len(req[r].log) :
    /\ req[r].log[i].tool = "verify_user_prompt"
    /\ ~req[r].log[i].granted

\* ---------------------------------------------------------------- C1
\* C1: once verify_user_prompt has returned on a false decision, no
\* document lookup, balance lookup or verify_response runs afterwards in
\* that run, and the returned envelope quotes no document content and no
\* balance and has sensitive_data_included = false.
C1_DeniedIdentityShortCircuits ==
  \A r \in Reqs :
    IdentityDenied(r) =>
      /\ \A i, j \in 1..Len(req[r].log) :
           ( /\ i < j
             /\ req[r].log[i].tool = "verify_user_prompt"
             /\ ~req[r].log[i].granted )
           => req[r].log[j].tool = "verify_user_prompt"
      /\ req[r].pc = "tool" => Frame(r).tool = "verify_user_prompt"
      /\ req[r].env.returned =>
           /\ req[r].env.message = {}
           /\ ~req[r].env.sensitive_data_included

\* ---------------------------------------------------------------- C2
\* C2: in every invocation of a data-bearing tool the PDP call comes before
\* the data read and gates it: nothing is read while the call is awaited or
\* when it failed, the balance is read only on a true decision of this
\* invocation, and documents are selected only once filter_objects has
\* returned, among the ids it returned.
C2_AuthorizationBeforeRead ==
  \A r \in Reqs :
    LET f == Frame(r) IN
    /\ f.phase = "await" => f.read = {} /\ f.filtered_docs = <<>> /\ f.out = NoOut
    /\ ~f.answer.ok => f.read = {} /\ f.filtered_docs = <<>>
    /\ f.tool = "check_account_balance" =>
         /\ f.read # {} => f.phase = "returned" /\ f.answer.ok /\ f.answer.decision
         /\ f.read \subseteq { <<"MOCK_BANK_ACCOUNTS", req[r].user_id>> }
         /\ (f.phase = "returned" /\ ~f.answer.decision) =>
              f.read = {} /\ f.out = StrOut(ACCESS_DENIED)
    /\ f.tool = "check_bank_documentation" =>
         /\ f.read # {} => f.phase = "returned" /\ f.answer.ok
         /\ \A p \in f.read :
              \E i \in 1..Len(f.answer.allowed_docs) :
                p = <<"MOCK_BANK_DOCS", f.answer.allowed_docs[i]>>
    /\ f.tool \notin DataTools => f.read = {}

\* A granted balance read has happened.
C2_Witness ==
  \E r \in Reqs :
    /\ Frame(r).tool = "check_account_balance"
    /\ Frame(r).phase = "returned"
    /\ Frame(r).answer.decision
    /\ Frame(r).read = { <<"MOCK_BANK_ACCOUNTS", req[r].user_id>> }

\* ---------------------------------------------------------------- C3
AllowedSet(f) == { f.answer.allowed_docs[i] : i \in 1..Len(f.answer.allowed_docs) }

DocReturned(r) ==
  /\ Frame(r).tool = "check_bank_documentation"
  /\ Frame(r).phase = "returned"

\* C3: whatever allowed set filter_objects returned, a document content that
\* check_bank_documentation returns (or keeps in filtered_docs) is that of a
\* catalogue document whose id is, by exact match, in that allowed set.
C3_OnlyAllowedExposed ==
  \A r \in Reqs :
    DocReturned(r) =>
      LET f == Frame(r) IN
      /\ \A i \in 1..Len(MOCK_BANK_DOCS) :
           f.out.text = MOCK_BANK_DOCS[i].content
             => MOCK_BANK_DOCS[i].id \in AllowedSet(f)
      /\ \A k \in 1..Len(f.filtered_docs) :
           f.filtered_docs[k].id \in AllowedSet(f)
      /\ \/ f.out.text = NO_DOCUMENTATION
         \/ \E i \in 1..Len(MOCK_BANK_DOCS) : f.out.text = MOCK_BANK_DOCS[i].content

\* A content was returned while the PDP allowed another id that is not in
\* the catalogue and withheld a document the topic matches.
C3_Witness ==
  \E r \in Reqs :
    /\ DocReturned(r)
    /\ Frame(r).out.text = MOCK_BANK_DOCS[2].content
    /\ "doc_00" \in AllowedSet(Frame(r))
    /\ "doc_001" \notin AllowedSet(Frame(r))
    /\ Frame(r).arg = <<"i","n","f","o">>

\* ---------------------------------------------------------------- C4
\* Characters a and b are the same letter in either case, or the same
\* character.
SameIgnoringCase(a, b) ==
  \/ a = b
  \/ \E i \in 1..Len(UpperCase) :
       {a, b} = {UpperCase[i], LowerCase[i]}

\* topic occurs in kind as a substring, letter case ignored.
TopicMatchesKind(topic, kind) ==
  \E off \in 0..Len(kind) :
    /\ off + Len(topic) <= Len(kind)
    /\ \A k \in 1..Len(topic) : SameIgnoringCase(topic[k], kind[off + k])

\* For each topic, the catalogue positions of the documents it matches.
MatchingIndexes ==
  [ topic \in Topics |->
      { j \in 1..Len(MOCK_BANK_DOCS) :
          TopicMatchesKind(topic, MOCK_BANK_DOCS[j].type) } ]

TopicMatching(topic) == { MOCK_BANK_DOCS[i] : i \in MatchingIndexes[topic] }

AllowedByPdp(f) ==
  { MOCK_BANK_DOCS[i] : i \in { j \in 1..Len(MOCK_BANK_DOCS) :
                                  MOCK_BANK_DOCS[j].id \in AllowedSet(f) } }

SeqRange(s) == { s[i] : i \in 1..Len(s) }

VerifyReturned(r) ==
  /\ Frame(r).tool = "verify_response"
  /\ Frame(r).phase = "returned"

\* C5: in every result of verify_response the caution note is non-empty only
\* if the scan found a digit in the response text and the PDP answered true
\* to the receive_with_caution check made for this subject in this
\* invocation; a result with contains_sensitive_data = false has an empty
\* note.
C5_CautionOnlyIfSensitiveAndApproved ==
  \A r \in Reqs :
    /\ VerifyReturned(r) =>
         LET f == Frame(r) IN
         /\ f.out.kind = "dict"
         /\ f.out.dict.contains_sensitive_data = ContainsNumbers(f.arg)
         /\ f.out.dict.caution_note # <<>> =>
              /\ f.out.dict.contains_sensitive_data
              /\ f.answer.ok /\ f.answer.decision
              /\ f.call.action = "receive_with_caution"
              /\ f.call.user.key = req[r].user_id
         /\ ~f.out.dict.contains_sensitive_data => f.out.dict.caution_note = <<>>
    /\ \A i \in 1..Len(req[r].log) :
         req[r].log[i].out.dict.caution_note # <<>> =>
           /\ req[r].log[i].tool = "verify_response"
           /\ req[r].log[i].out.dict.contains_sensitive_data
           /\ req[r].log[i].granted

\* verify_response has attached the note.
C5_Witness ==
  \E r \in Reqs :
    /\ VerifyReturned(r)
    /\ Frame(r).out.dict.caution_note = CAUTION_NOTE

\* ---------------------------------------------------------------- C6
\* The tool calls run r has issued.
Issued(r) == callsPerRun - req[r].left

\* C6: whenever a PDP call fails (the client raises) in any of the four
\* tools, the run ends with an exception: the failing invocation returns
\* nothing (neither the denial string nor data), reads nothing, and
\* handle_user_query returns no envelope.
C6_FailClosed ==
  \A r \in Reqs :
    LET f == Frame(r) IN
    /\ (Ended(r) /\ ~f.answer.ok) =>
         /\ f.phase = "raised"
         /\ req[r].pc = "raised"
         /\ req[r].error # ""
         /\ f.out = NoOut
         /\ f.read = {}
         /\ f.filtered_docs = <<>>
         /\ Len(req[r].log) = Issued(r) - 1
    /\ req[r].pc = "raised" => ~req[r].env.returned /\ ~f.answer.ok

\* The PDP failed during a balance check that came after a granted
\* document lookup.
C6_Witness ==
  \E r \in Reqs :
    /\ req[r].pc = "raised"
    /\ Frame(r).tool = "check_account_balance"
    /\ Frame(r).answer.error = "PermitConnectionError"
    /\ Len(req[r].log) = 1
    /\ req[r].log[1].tool = "check_bank_documentation"
    /\ req[r].log[1].granted

EmptyIntersection(f) == TopicMatching(f.arg) \cap AllowedByPdp(f) = {}

\* C8: in check_bank_documentation a failed filter_objects call always ends
\* in a raised SecurityError and never in the no-documentation string, an
\* empty intersection always ends in that string and never in an exception,
\* a non-empty one in neither; and SecurityError is raised by nothing but a
\* failed filter_objects call.
C8_ThreeOutcomesDistinct ==
  \A r \in Reqs :
    LET f == Frame(r) IN
    /\ (f.tool = "check_bank_documentation" /\ Ended(r)) =>
         /\ ~f.answer.ok =>
              /\ f.phase = "raised"
              /\ req[r].error = "SecurityError"
              /\ f.out.text # NO_DOCUMENTATION
         /\ (f.answer.ok /\ EmptyIntersection(f)) =>
              /\ f.phase = "returned"
              /\ req[r].error = ""
              /\ f.out = StrOut(NO_DOCUMENTATION)
         /\ (f.answer.ok /\ ~EmptyIntersection(f)) =>
              /\ f.phase = "returned"
              /\ req[r].error = ""
              /\ f.out.text # NO_DOCUMENTATION
    /\ req[r].error = "SecurityError" =>
         /\ f.tool = "check_bank_documentation"
         /\ ~f.answer.ok

\* The topic has a document, the PDP allowed others but not that one, and
\* the tool returned the no-documentation string.
C8_Witness ==
  \E r \in Reqs :
    /\ DocReturned(r)
    /\ Frame(r).arg = <<"L","o","a","n">>
    /\ AllowedSet(Frame(r)) = {"doc_001", "doc_003"}
    /\ Frame(r).out = StrOut(NO_DOCUMENTATION)
    /\ req[r].pc = "agent"

\* ---------------------------------------------------------------- C9
IsContent(text) == \E i \in 1..Len(MOCK_BANK_DOCS) : text = MOCK_BANK_DOCS[i].content

\* C9: a denial is a returned value, never an exception (a false balance
\* decision returns ACCESS_DENIED, an empty allowed set returns the
\* no-documentation string), and a data-bearing tool call's outcome is
\* decided by its own PDP answer alone, whatever the other calls of the run
\* returned: a denial earlier in the run neither ends the run nor keeps a
\* later granted call from returning its data.
C9_DenialsAreValuesCallsIndependent ==
  \A r \in Reqs :
    LET f == Frame(r) IN
    /\ (f.tool = "check_account_balance" /\ Ended(r) /\ f.answer.ok) =>
         /\ f.phase = "returned"
         /\ req[r].error = ""
         /\ f.out = IF f.answer.decision
                    THEN StrOut(BalanceText(AccountsGet(req[r].user_id)))
                    ELSE StrOut(ACCESS_DENIED)
    /\ (f.tool = "check_bank_documentation" /\ Ended(r) /\ f.answer.ok) =>
         /\ f.phase = "returned"
         /\ req[r].error = ""
         /\ AllowedSet(f) = {} => f.out = StrOut(NO_DOCUMENTATION)
         /\ ~EmptyIntersection(f) => IsContent(f.out.text)
    /\ \A i \in 1..Len(req[r].log) :
         LET e == req[r].log[i] IN
         /\ e.tool = "check_account_balance" =>
              e.out.text = IF e.granted
                           THEN BalanceText(AccountsGet(req[r].user_id))
                           ELSE ACCESS_DENIED
         /\ e.tool = "check_bank_documentation" =>
              IF e.granted THEN IsContent(e.out.text)
              ELSE e.out.text = NO_DOCUMENTATION

\* One run was refused its documents and then granted its balance.
C9_Witness ==
  \E r \in Reqs :
    /\ Len(req[r].log) = 2
    /\ req[r].log[1].tool = "check_bank_documentation"
    /\ ~req[r].log[1].granted
    /\ req[r].log[2].tool = "check_account_balance"
    /\ req[r].log[2].granted
    /\ req[r].pc = "agent"

\* The other three combinations within one run.
C9_GrantedThenDenied ==
  \E r \in Reqs :
    /\ Len(req[r].log) = 2
    /\ req[r].log[1].tool = "check_bank_documentation"
    /\ req[r].log[1].granted
    /\ req[r].log[2].tool = "check_account_balance"
    /\ ~req[r].log[2].granted

C9_BothGranted ==
  \E r \in Reqs :
    /\ Len(req[r].log) = 2
    /\ req[r].log[1].tool = "check_account_balance"
    /\ req[r].log[1].granted
    /\ req[r].log[2].tool = "check_bank_documentation"
    /\ req[r].log[2].granted

C9_BothDenied ==
  \E r \in Reqs :
    /\ Len(req[r].log) = 2
    /\ req[r].log[1].tool = "check_account_balance"
    /\ ~req[r].log[1].granted
    /\ req[r].log[2].tool = "check_bank_documentation"
    /\ ~req[r].log[2].granted

\* --------------------------------------------------------------- C10
\* The envelope of run r takes its two flags from the result of the
\* verify_response call that ended the run's tool calls.
EnvelopeFromVerify(r) ==
  /\ req[r].env.returned
  /\ req[r].log # <<>>
  /\ LET e == req[r].log[Len(req[r].log)] IN
       /\ e.tool = "verify_response"
       /\ req[r].env.sensitive_data_included = e.out.dict.contains_sensitive_data
       /\ req[r].env.caution_note = e.out.dict.caution_note

\* The PDP answered both runs alike: the same tools were called in the same
\* order and got the same decisions.
SameDecisions(r1, r2) ==
  /\ Len(req[r1].log) = Len(req[r2].log)
  /\ \A i \in 1..Len(req[r1].log) :
       /\ req[r1].log[i].tool = req[r2].log[i].tool
       /\ req[r1].log[i].granted = req[r2].log[i].granted

\* C10: two runs of handle_user_query with the same subject and query, the
\* PDP answering both alike, return envelopes with the same
\* sensitive_data_included and caution_note.  Stated for envelopes that copy
\* the result of verify_response, the case most favourable to the claim.
C10_SameInputsSameFlags ==
  \A r1, r2 \in Reqs :
    ( /\ EnvelopeFromVerify(r1)
      /\ EnvelopeFromVerify(r2)
      /\ req[r1].user_id = req[r2].user_id
      /\ req[r1].query = req[r2].query
      /\ SameDecisions(r1, r2) )
    => /\ req[r1].env.sensitive_data_included = req[r2].env.sensitive_data_included
       /\ req[r1].env.caution_note = req[r2].env.caution_note

\* --------------------------------------------------------------- C11
\* The balance text of a zero balance.
ZERO_BALANCE == <<"Your current balance is $", "0", ".", "0", "0">>

\* C11: for a subject with no recorded account whose balance read the PDP
\* allowed, check_account_balance returns "Your current balance is $0.00"
\* (it neither raises nor returns an error string); for a topic matching no
\* catalogue document, check_bank_documentation returns the
\* no-documentation string and does not raise.
C11_NotFoundIsNoError ==
  \A r \in Reqs :
    LET f == Frame(r) IN
    /\ ( /\ f.tool = "check_account_balance"
         /\ Ended(r)
         /\ f.answer.ok
         /\ f.answer.decision
         /\ req[r].user_id \notin DOMAIN MOCK_BANK_ACCOUNTS )
       => /\ f.phase = "returned"
          /\ req[r].pc = "agent"
          /\ req[r].error = ""
          /\ f.out = StrOut(ZERO_BALANCE)
    /\ ( /\ f.tool = "check_bank_documentation"
         /\ Ended(r)
         /\ f.answer.ok
         /\ TopicMatching(f.arg) = {} )
       => /\ f.phase = "returned"
          /\ req[r].pc = "agent"
          /\ req[r].error = ""
          /\ f.filtered_docs = <<>>
          /\ f.out = StrOut(NO_DOCUMENTATION)

\* A subject without an account was granted the read and got $0.00.
C11_Witness ==
  \E r \in Reqs :
    /\ req[r].user_id = "new@example.com"
    /\ Frame(r).tool = "check_account_balance"
    /\ Frame(r).phase = "returned"
    /\ Frame(r).answer.decision
    /\ Frame(r).out = StrOut(ZERO_BALANCE)

\* A topic no document matches was looked up while the PDP allowed every
\* document.
C11_NoTopicReached ==
  \E r \in Reqs :
    /\ DocReturned(r)
    /\ Frame(r).arg = <<"c","a","r","d">>
    /\ DocIds \subseteq AllowedSet(Frame(r))
    /\ Frame(r).out = StrOut(NO_DOCUMENTATION)

\* --------------------------------------------------------------- C12
AsciiDigits == {"0","1","2","3","4","5","6","7","8","9"}

HasAsciiDigit(text) == \E i \in 1..Len(text) : text[i] \in AsciiDigits

HasDecimalDigit(text) ==
  \E i \in 1..Len(text) : text[i] \in AsciiDigits \cup OtherDecimalDigits

\* C12 as claimed: verify_response flags a text exactly when it holds one
\* of the characters 0-9.
C12_FlaggedIffAsciiDigit ==
  \A r \in Reqs :
    VerifyReturned(r) =>
      Frame(r).out.dict.contains_sensitive_data = HasAsciiDigit(Frame(r).arg)

\* C12 as amended: verify_response flags a text exactly when it holds a
\* decimal digit, 0-9 or a decimal digit of another script; so every text
\* with one of 0-9 is flagged, a text with no decimal digit at all is not,
\* and every balance text check_account_balance returns on a granted read
\* is one the scan flags.
C12_FlaggedIffDecimalDigit ==
  \A r \in Reqs :
    LET f == Frame(r) IN
    /\ VerifyReturned(r) =>
         /\ f.out.dict.contains_sensitive_data = HasDecimalDigit(f.arg)
         /\ HasAsciiDigit(f.arg) => f.out.dict.contains_sensitive_data
    /\ ( /\ f.tool = "check_account_balance"
         /\ f.phase = "returned"
         /\ f.answer.decision )
       => /\ HasAsciiDigit(f.out.text)
          /\ VerifyResult(ContainsNumbers(f.out.text), FALSE).contains_sensitive_data

\* A text whose only digit is an Arabic-Indic one was scanned and flagged.
C12_Witness ==
  \E r \in Reqs :
    /\ VerifyReturned(r)
    /\ Frame(r).arg = <<"Your PIN ends in ", "U+0663">>
    /\ ~HasAsciiDigit(Frame(r).arg)
    /\ Frame(r).out.dict.contains_sensitive_data

\* --------------------------------------------------------------- C13
\* Among the first n returned tool calls of run r there is an identity
\* check that returned on a true decision.
IdentityCheckedWithin(r, n) ==
  \E i \in 1..n :
    /\ req[r].log[i].tool = "verify_user_prompt"
    /\ req[r].log[i].granted

\* Among the first n returned tool calls of run r there is a data tool.
DataRetrievedWithin(r, n) ==
  \E i \in 1..n : req[r].log[i].tool \in DataTools

\* C13: in every run the stages come in the order identity check, data
\* retrieval, verify_response, envelope: a document or balance tool runs
\* only after an identity check of the run has returned true,
\* verify_response runs only after a data tool of the run, and an envelope
\* is returned only after verify_response has run last.
C13_StagesInFixedOrder ==
  \A r \in Reqs :
    LET log == req[r].log
        f == Frame(r)
    IN
    /\ \A j \in 1..Len(log) :
         /\ log[j].tool \in DataTools => IdentityCheckedWithin(r, j - 1)
         /\ log[j].tool = "verify_response" => DataRetrievedWithin(r, j - 1)
    /\ (req[r].pc = "tool" /\ f.tool \in DataTools)
         => IdentityCheckedWithin(r, Len(log))
    /\ (req[r].pc = "tool" /\ f.tool = "verify_response")
         => DataRetrievedWithin(r, Len(log))
    /\ req[r].env.returned =>
         /\ log # <<>>
         /\ log[Len(log)].tool = "verify_response"

\* --------------------------------------------------------------- C14
\* C14: the check verify_user_prompt issues asks whether the subject may
\* "receive" a resource of type support_response that carries
\* identity_verified = true.
C14_IdentityCheckAsksReceive ==
  \A r \in Reqs :
    Frame(r).tool = "verify_user_prompt" =>
      LET c == Frame(r).call IN
      /\ c.op = "check"
      /\ c.user.key = req[r].user_id
      /\ c.action = "receive"
      /\ c.resource = [ type |-> "support_response",
                        attributes |-> { <<"identity_verified", <<"True">>>> } ]

\* --------------------------------------------------------------- C15
\* The invocation of verify_response in run r has issued its one check:
\* receive_with_caution, for the subject of the run, on a support_response.
CautionCheckIssued(r) ==
  LET c == Frame(r).call IN
  /\ Frame(r).phase \in {"await", "returned", "raised"}
  /\ c.op = "check"
  /\ c.user = PlainUser(req[r].user_id)
  /\ c.action = "receive_with_caution"
  /\ c.resource.type = "support_response"

\* The note is attached exactly when the scan and the PDP's answer are both
\* true.
NoteOnlyWhenBoth(r) ==
  VerifyReturned(r) =>
    ( Frame(r).out.dict.caution_note = CAUTION_NOTE
        <=> (HasDecimalDigit(Frame(r).arg) /\ Frame(r).answer.decision) )
    /\ Frame(r).out.dict.caution_note \in {<<>>, CAUTION_NOTE}

\* C15 as claimed: every invocation of verify_response issues one
\* receive_with_caution check whatever the scan found, the note is attached
\* only when scan and answer are both true, and the check's resource carries
\* contains_account_numbers: true.
C15_CautionCheckCarriesTrue ==
  \A r \in Reqs :
    Frame(r).tool = "verify_response" =>
      /\ CautionCheckIssued(r)
      /\ NoteOnlyWhenBoth(r)
      /\ Frame(r).call.resource.attributes
           = { <<"contains_account_numbers", <<"True">>>> }

\* C15 as amended: the same, but the check's resource carries
\* contains_account_numbers equal to the result of the scan: True when the
\* text holds a decimal digit, False when it holds none.
C15_CautionCheckCarriesScan ==
  \A r \in Reqs :
    Frame(r).tool = "verify_response" =>
      /\ CautionCheckIssued(r)
      /\ NoteOnlyWhenBoth(r)
      /\ Frame(r).call.resource.attributes
           = { <<"contains_account_numbers",
                 IF HasDecimalDigit(Frame(r).arg) THEN <<"True">> ELSE <<"False">> >> }

\* A text without digits went through verify_response: the check was
\* issued with contains_account_numbers: False, the PDP answered true, and
\* no note was attached.
C15_Witness ==
  \E r \in Reqs :
    /\ VerifyReturned(r)
    /\ Frame(r).arg = <<"Please verify your identity.">>
    /\ Frame(r).call.action = "receive_with_caution"
    /\ Frame(r).call.resource.attributes
         = { <<"contains_account_numbers", <<"False">>>> }
    /\ Frame(r).answer.decision
    /\ Frame(r).out.dict.caution_note = <<>>

\* --------------------------------------------------------------- C16
\* What the tool of frame f in run r computes from the answer its own PDP
\* call got, and from nothing else.
OutcomeOfOwnAnswer(r, f) ==
  IF f.tool = "verify_user_prompt"
    THEN IF ~f.answer.ok THEN NoOut
         ELSE IF f.answer.decision THEN StrOut(IDENTITY_VERIFIED)
         ELSE StrOut(IDENTITY_NOT_VERIFIED)
  ELSE IF f.tool = "check_account_balance"
    THEN IF ~f.answer.ok THEN NoOut
         ELSE IF f.answer.decision
              THEN StrOut(BalanceText(
                     IF req[r].user_id \in DOMAIN MOCK_BANK_ACCOUNTS
                     THEN MOCK_BANK_ACCOUNTS[req[r].user_id] ELSE 0))
         ELSE StrOut(ACCESS_DENIED)
  ELSE IF f.tool = "verify_response"
    THEN IF ~f.answer.ok THEN NoOut
         ELSE DictOut([ approved |-> TRUE,
                        contains_sensitive_data |-> HasDecimalDigit(f.arg),
                        caution_note |->
                          IF f.answer.decision /\ HasDecimalDigit(f.arg)
                          THEN CAUTION_NOTE ELSE <<>> ])
  ELSE IF ~f.answer.ok THEN NoOut
  ELSE LET idx == { i \in MatchingIndexes[f.arg] :
                       MOCK_BANK_DOCS[i].id \in AllowedSet(f) }
       IN  IF idx = {} THEN StrOut(NO_DOCUMENTATION)
           ELSE StrOut(MOCK_BANK_DOCS[CHOOSE i \in idx : \A j \in idx : i <= j].content)

\* C16: every tool invocation makes its own PDP call for the subject of the
\* run, and what it returns follows from the answer to that call alone,
\* whatever earlier calls of the run were answered: in particular a balance
\* read that the PDP denies returns ACCESS_DENIED even when an earlier read
\* of the same run was granted.
C16_NoDecisionCached ==
  \A r \in Reqs :
    LET f == Frame(r) IN
    /\ f.tool # "" =>
         /\ f.call.op = IF f.tool = "check_bank_documentation"
                        THEN "filter_objects" ELSE "check"
         /\ f.call.user.key = req[r].user_id
    /\ Ended(r) => f.out = OutcomeOfOwnAnswer(r, f)
    /\ (Ended(r) /\ f.tool \in DataTools
          /\ (~f.answer.ok \/ (f.tool = "check_account_balance" /\ ~f.answer.decision)))
         => f.read = {}

\* The policy flipped between two balance reads of one run: the first was
\* granted, the second denied.
C16_Witness ==
  \E r \in Reqs :
    /\ Len(req[r].log) = 2
    /\ req[r].log[1].tool = "check_account_balance"
    /\ req[r].log[1].granted
    /\ Frame(r).tool = "check_account_balance"
    /\ Frame(r).phase = "returned"
    /\ ~Frame(r).answer.decision
    /\ Frame(r).out = StrOut(ACCESS_DENIED)
    /\ Frame(r).read = {}

\* --------------------------------------------------------------- C17
\* The documents of docs whose kind the topic matches, in the order of docs.
ByTopic(docs, topic) ==
  LET matches(doc) == TopicMatchesKind(topic, doc.type)
  IN  SelectSeq(docs, matches)

\* The documents of docs whose id is in ids, in the order of docs.
ByAllowed(docs, ids) ==
  LET allowed(doc) == doc.id \in ids
  IN  SelectSeq(docs, allowed)

\* C17: for the catalogue, every topic and every allowed-id set the PDP
\* returned, matching the topic first and keeping the allowed ids second
\* gives the same documents as keeping the allowed ids first and matching
\* the topic second, and that is what check_bank_documentation holds in
\* filtered_docs.
C17_TopicAndFilterCommute ==
  \A r \in Reqs :
    DocReturned(r) =>
      LET f == Frame(r)
          ids == AllowedSet(f)
      IN
      /\ ByAllowed(ByTopic(MOCK_BANK_DOCS, f.arg), ids)
           = ByTopic(ByAllowed(MOCK_BANK_DOCS, ids), f.arg)
      /\ f.filtered_docs = ByAllowed(ByTopic(MOCK_BANK_DOCS, f.arg), ids)

\* The two orders go through different intermediate lists: the topic
\* matches one document (letter case ignored), the PDP allowed that one,
\* another one and an id the catalogue does not hold.
C17_Witness ==
  \E r \in Reqs :
    /\ DocReturned(r)
    /\ Frame(r).arg = <<"L","o","a","n">>
    /\ AllowedSet(Frame(r)) = {"doc_001", "doc_002", "doc_00"}
    /\ Len(ByTopic(MOCK_BANK_DOCS, Frame(r).arg)) = 1
    /\ Len(ByAllowed(MOCK_BANK_DOCS, AllowedSet(Frame(r)))) = 2
    /\ Len(Frame(r).filtered_docs) = 1

\* --------------------------------------------------------------- C18
\* The position of a catalogue document in MOCK_BANK_DOCS.
CatalogIndex(doc) == CHOOSE i \in 1..Len(MOCK_BANK_DOCS) : MOCK_BANK_DOCS[i] = doc

\* C18: whatever order the PDP returned its allowed set in, filtered_docs
\* holds catalogue documents, unaltered, in catalogue order; the resources
\* sent to the PDP are the catalogue's documents, one each, in order, with
\* their kind and security requirement; and the content returned is that
\* of the first document of filtered_docs, the allowed and topic-matching
\* document that comes first in the catalogue.
C18_CatalogOrderKept ==
  \A r \in Reqs :
    LET f == Frame(r) IN
    /\ f.tool = "check_bank_documentation" =>
         /\ Len(f.call.resources) = Len(MOCK_BANK_DOCS)
         /\ \A i \in 1..Len(MOCK_BANK_DOCS) :
              /\ f.call.resources[i].id = MOCK_BANK_DOCS[i].id
              /\ f.call.resources[i].attributes =
                   { <<"data_type", MOCK_BANK_DOCS[i].type>>,
                     <<"security_requirement",
                       <<MOCK_BANK_DOCS[i].security_requirement>>>> }
    /\ DocReturned(r) =>
         /\ \A k \in 1..Len(f.filtered_docs) :
              f.filtered_docs[k] \in SeqRange(MOCK_BANK_DOCS)
         /\ \A k, l \in 1..Len(f.filtered_docs) :
              k < l => CatalogIndex(f.filtered_docs[k]) < CatalogIndex(f.filtered_docs[l])
         /\ f.filtered_docs # <<>> =>
              /\ f.out = StrOut(f.filtered_docs[1].content)
              /\ \A doc \in TopicMatching(f.arg) \cap AllowedByPdp(f) :
                   CatalogIndex(f.filtered_docs[1]) <= CatalogIndex(doc)

\* The PDP returned its allowed set in the opposite order, an id of its
\* own making first; the list kept the catalogue order.
C18_Witness ==
  \E r \in Reqs :
    /\ DocReturned(r)
    /\ Frame(r).arg = <<"i","n","f","o">>
    /\ Frame(r).answer.allowed_docs = <<"doc_00", "doc_004", "doc_002">>
    /\ Frame(r).filtered_docs = <<MOCK_BANK_DOCS[2], MOCK_BANK_DOCS[4]>>
    /\ Frame(r).out = StrOut(MOCK_BANK_DOCS[2].content)

\* --------------------------------------------------------------- C19
\* C19: after any interleaving of the tool calls of concurrent runs,
\* MOCK_BANK_DOCS and MOCK_BANK_ACCOUNTS are as they were at start, and
\* every tool invocation that has ended has the result it would have had
\* if its run had been alone: the one that follows from the run's own
\* subject, the invocation's own argument and the answer to its own PDP
\* call.
C19_NoSharedStateMutated ==
  /\ bank_docs = MOCK_BANK_DOCS
  /\ bank_accounts = MOCK_BANK_ACCOUNTS
  /\ \A r \in Reqs :
       /\ Ended(r) => Frame(r).out = OutcomeOfOwnAnswer(r, Frame(r))
       /\ Ended(r) => Frame(r).read \subseteq
                        { <<"MOCK_BANK_ACCOUNTS", req[r].user_id>> }
                          \cup { <<"MOCK_BANK_DOCS", id>> : id \in AllowedSet(Frame(r)) }

\* Two runs for different subjects, one without an account, were in flight
\* together and both had their balance read granted.
C19_Witness ==
  /\ req["r1"].user_id = "new@example.com"
  /\ req["r2"].user_id = "test@example.com"
  /\ \A r \in Reqs :
       /\ Frame(r).tool = "check_account_balance"
       /\ Frame(r).phase = "returned"
       /\ Frame(r).answer.decision
       /\ req[r].pc = "agent"
  /\ Frame("r1").out = StrOut(ZERO_BALANCE)
  /\ Frame("r2").out = StrOut(<<"Your current balance is $", "1","2","5","0",".","3","0">>)

\* --------------------------------------------------------------- C20
\* The balance text recorded for subject u, $0.00 when none is recorded.
RecordedBalanceText(u) ==
  BalanceText(IF u \in DOMAIN MOCK_BANK_ACCOUNTS THEN MOCK_BANK_ACCOUNTS[u] ELSE 0)

\* C20: check_account_balance asks the PDP about the subject of the run
\* (deps.user_id) and, when granted, reads and returns the balance recorded
\* for that same subject; no tool result of a run is the balance text of
\* another subject's account.
C20_OwnBalanceOnly ==
  \A r \in Reqs :
    LET f == Frame(r)
        others == DOMAIN MOCK_BANK_ACCOUNTS \ {req[r].user_id}
    IN
    /\ f.tool = "check_account_balance" =>
         /\ f.call.user = PlainUser(req[r].user_id)
         /\ f.read \subseteq { <<"MOCK_BANK_ACCOUNTS", req[r].user_id>> }
         /\ (f.phase = "returned" /\ f.answer.decision) =>
              /\ f.out = StrOut(RecordedBalanceText(req[r].user_id))
              /\ f.read = { <<"MOCK_BANK_ACCOUNTS", req[r].user_id>> }
    /\ \A b \in others :
         /\ f.out.text # RecordedBalanceText(b)
         /\ \A i \in 1..Len(req[r].log) :
              req[r].log[i].out.text # RecordedBalanceText(b)
         /\ RecordedBalanceText(b) \notin req[r].env.message

\* A subject with an account of its own, while other accounts exist, was
\* granted the read twice and got its own balance.
C20_Witness ==
  \E r \in Reqs :
    /\ req[r].user_id = "test@example.com"
    /\ Len(req[r].log) = 2
    /\ \A i \in 1..2 :
         /\ req[r].log[i].tool = "check_account_balance"
         /\ req[r].log[i].granted
         /\ req[r].log[i].out.text = RecordedBalanceText("test@example.com")
    /\ "samarachi470@gmail.com" \in DOMAIN MOCK_BANK_ACCOUNTS
    /\ RecordedBalanceText("samarachi470@gmail.com") # RecordedBalanceText("test@example.com")

====
